---- MODULE Spec2Model ----
(***************************************************************************)
(* A model of scraper.py: the breadth-first crawl loop of scrape_website   *)
(* and the extraction heuristics extract_title, extract_date and           *)
(* extract_content.                                                        *)
(*                                                                         *)
(* Text is a sequence of characters (one-character strings), so that       *)
(* str.strip and concatenation are computed.  A URL is the record of the   *)
(* parts urlparse splits it into; two URL strings are equal exactly when   *)
(* their records are.  A parsed document (BeautifulSoup) is a table of     *)
(* nodes in document order, each naming its parent.                        *)
(***************************************************************************)
EXTENDS Integers, Sequences, FiniteSets, TLC

VARIABLES
    url,          \* argument: the seed URL as given
    max_pages,    \* argument
    max_depth,    \* argument
    base_domain,  \* urlparse(url).netloc
    queue,        \* deque of <<url, depth>> entries
    visited,      \* set of URL strings
    results,      \* list of page_data records
    current,      \* the entry popped last: current_url and depth (NoEntry before the first)
    pc,           \* "loop": at the while test; "links": in the for loop over the
                  \* page's anchors; "done": returned; "extract": extractor call
    pending,      \* the anchors the for loop has yet to reach (their hrefs)
    output,       \* the output file: <<>> until written, then <<results>>
    attempts,     \* history: one record per loop iteration (a "Scraping page" line)
    enqueued,     \* history: every entry ever put on the queue, in order
    last_link,    \* history: how the last pass through the for loop ended, [why, what]
    soup,         \* the document handed to an extractor (extractor runs only)
    ret           \* what the extractor call returned (extractor runs only)

vars == <<url, max_pages, max_depth, base_domain, queue, visited, results,
          current, pc, pending, output, attempts, enqueued, last_link,
          soup, ret>>

crawlVars == <<url, max_pages, max_depth, base_domain, queue, visited, results,
               current, pending, output, attempts, enqueued, last_link>>

(***************************************************************************)
(* Bounds of the model.                                                    *)
(***************************************************************************)
MaxPages == 3
MaxDepth == 2
MaxLinks == 2
MaxParas == 3

(***************************************************************************)
(* Python values: None and truthiness.                                     *)
(***************************************************************************)
None == <<>>
Some(x) == <<x>>

Min(S) == CHOOSE x \in S : \A y \in S : x <= y

RECURSIVE SeqsUpTo(_, _)
SeqsUpTo(S, n) ==
    IF n = 0 THEN {<<>>}
    ELSE LET shorter == SeqsUpTo(S, n - 1)
         IN shorter \cup {Append(s, x) : s \in {t \in shorter : Len(t) = n - 1}, x \in S}

(***************************************************************************)
(* Text.                                                                   *)
(***************************************************************************)
Whitespace == {" ", "\n"}

RECURSIVE lstrip(_)
lstrip(s) == IF s # <<>> /\ Head(s) \in Whitespace THEN lstrip(Tail(s)) ELSE s

RECURSIVE rstrip(_)
rstrip(s) ==
    IF s # <<>> /\ s[Len(s)] \in Whitespace
    THEN rstrip(SubSeq(s, 1, Len(s) - 1))
    ELSE s

strip(s) == rstrip(lstrip(s))

UnknownTitle == <<"Unknown Title">>
UnknownDate == <<"Unknown Date">>

(***************************************************************************)
(* Documents.  A node is [tag, parent, text, sel, content, href]:          *)
(*   parent   index of the enclosing node, 0 for the document itself;      *)
(*   text     the node's own text, before its children;                    *)
(*   sel      the attribute the lookups match on ("property=og:title",     *)
(*            "name=date", "class=content", "id=content", ...), or "";     *)
(*   content  the content attribute, None when absent;                     *)
(*   href     the href attribute, None when absent.                        *)
(* A soup is [nodes, gone]: gone holds the decomposed nodes.               *)
(***************************************************************************)
Node(tag, parent, text) ==
    [tag |-> tag, parent |-> parent, text |-> text, sel |-> "",
     content |-> None, href |-> None]

Meta(sel, content) ==
    [tag |-> "meta", parent |-> 0, text |-> <<>>, sel |-> sel,
     content |-> content, href |-> None]

Anchor(parent, text, href) ==
    [tag |-> "a", parent |-> parent, text |-> text, sel |-> "",
     content |-> None, href |-> href]

Classed(tag, parent, text, sel) ==
    [tag |-> tag, parent |-> parent, text |-> text, sel |-> sel,
     content |-> None, href |-> None]

BeautifulSoup(nodes) == [nodes |-> nodes, gone |-> {}]

Live(s) == {i \in DOMAIN s.nodes : i \notin s.gone}

\* node i is node j or lies inside it (j = 0: the whole document)
RECURSIVE Within(_, _, _)
Within(nodes, i, j) ==
    IF i = j THEN TRUE
    ELSE IF i = 0 THEN FALSE
    ELSE Within(nodes, nodes[i].parent, j)

First(S) == IF S = {} THEN 0 ELSE Min(S)

\* soup.find(tag): the first element with that tag, 0 when there is none
find(s, tag) == First({i \in Live(s) : s.nodes[i].tag = tag})

\* soup.find(tag, attrs)
find_attrs(s, tag, sel) ==
    First({i \in Live(s) : s.nodes[i].tag = tag /\ s.nodes[i].sel = sel})

\* element.get_text(): the text of the element and of everything inside it
RECURSIVE text_from(_, _, _)
text_from(s, j, i) ==
    IF i > Len(s.nodes) THEN <<>>
    ELSE (IF i \in Live(s) /\ Within(s.nodes, i, j) THEN s.nodes[i].text ELSE <<>>)
         \o text_from(s, j, i + 1)

get_text(s, j) == text_from(s, j, 1)

(***************************************************************************)
(* extract_title (lines 111-120).  A returned record is                    *)
(* [raised, value]: raised when the call ends in an exception.             *)
(***************************************************************************)
Returned(v) == [raised |-> FALSE, value |-> v]
Raised == [raised |-> TRUE, value |-> <<>>]

\* Python's truth value of a string-or-None
Truthy(opt) == opt # None /\ opt[1] # <<>>

extract_title_blank_falls_through(s) ==
    LET h1 == find(s, "h1")
        meta == find_attrs(s, "meta", "property=og:title")
        t == find(s, "title")
        a == IF h1 # 0 THEN Some(strip(get_text(s, h1))) ELSE None
        b == IF meta # 0 /\ s.nodes[meta].content # None
             THEN Some(strip(s.nodes[meta].content[1])) ELSE None
        c == IF t # 0 THEN Some(strip(get_text(s, t))) ELSE None
    IN  IF Truthy(a) THEN Returned(a[1])
        ELSE IF Truthy(b) THEN Returned(b[1])
        ELSE IF Truthy(c) THEN Returned(c[1])
        ELSE Returned(UnknownTitle)

extract_title_without_default(s) ==
    LET h1 == find(s, "h1")
        meta == find_attrs(s, "meta", "property=og:title")
        t == find(s, "title")
    IN  IF h1 # 0 THEN Returned(strip(get_text(s, h1)))
        ELSE IF meta # 0 THEN
            IF s.nodes[meta].content = None THEN Raised
            ELSE Returned(strip(s.nodes[meta].content[1]))
        ELSE IF t # 0 THEN Returned(strip(get_text(s, t)))
        ELSE Returned(UnknownTitle)

extract_title(s) ==
    LET h1 == find(s, "h1")
        meta == find_attrs(s, "meta", "property=og:title")
        t == find(s, "title")
    IN  IF h1 # 0 THEN
            LET title == Some(strip(get_text(s, h1)))
            IN Returned(IF Truthy(title) THEN title[1] ELSE UnknownTitle)
        ELSE IF meta # 0 THEN
            \* ['content'] raises KeyError when the attribute is absent
            IF s.nodes[meta].content = None THEN Raised
            ELSE LET title == Some(strip(s.nodes[meta].content[1]))
                 IN Returned(IF Truthy(title) THEN title[1] ELSE UnknownTitle)
        ELSE IF t # 0 THEN
            LET title == Some(strip(get_text(s, t)))
            IN Returned(IF Truthy(title) THEN title[1] ELSE UnknownTitle)
        ELSE Returned(UnknownTitle)

(***************************************************************************)
(* extract_date (lines 122-142).                                           *)
(***************************************************************************)
date_elements ==
    << [tag |-> "meta", sel |-> "property=article:published_time"],
       [tag |-> "meta", sel |-> "name=date"],
       [tag |-> "meta", sel |-> "name=publication_date"],
       [tag |-> "time", sel |-> "class=entry-date"] >>

\* the for loop from locator k on, with the value date holds so far
RECURSIVE date_scan(_, _, _)
date_scan(s, k, date) ==
    IF k > Len(date_elements) THEN date
    ELSE LET loc == date_elements[k]
             element == find_attrs(s, loc.tag, loc.sel)
         IN  IF element = 0 THEN date_scan(s, k + 1, date)
             ELSE LET d == IF loc.tag = "meta"
                           THEN s.nodes[element].content
                           ELSE Some(strip(get_text(s, element)))
                  IN IF Truthy(d) THEN d ELSE date_scan(s, k + 1, d)

extract_date(s) ==
    LET date == date_scan(s, 1, None)
    IN Returned(IF Truthy(date) THEN date[1] ELSE UnknownDate)

(***************************************************************************)
(* extract_content (lines 144-175).  Returns [soup, raised, value]: the    *)
(* soup is the tree as the call leaves it.                                 *)
(***************************************************************************)
Unwanted == {"script", "style", "nav", "footer", "header"}

\* lines 147-148: every unwanted element is decomposed, with all inside it
decompose_unwanted(s) ==
    [s EXCEPT !.gone = @ \cup
        {i \in DOMAIN s.nodes :
            \E j \in Live(s) : s.nodes[j].tag \in Unwanted /\ Within(s.nodes, i, j)}]

\* line 155: the selectors, in the order tried
selectors ==
    << [by |-> "tag", v |-> "article"], [by |-> "tag", v |-> "main"],
       [by |-> "sel", v |-> "class=content"], [by |-> "sel", v |-> "id=content"],
       [by |-> "sel", v |-> "class=post"], [by |-> "sel", v |-> "class=article"] >>

select_one(s, selector) ==
    First({i \in Live(s) :
              IF selector.by = "tag" THEN s.nodes[i].tag = selector.v
              ELSE s.nodes[i].sel = selector.v})

\* lines 154-163: the first selector that matches, else soup.body (0: None)
RECURSIVE content_container_from(_, _)
content_container_from(s, k) ==
    IF k > Len(selectors) THEN find(s, "body")
    ELSE IF select_one(s, selectors[k]) # 0 THEN select_one(s, selectors[k])
    ELSE content_container_from(s, k + 1)

\* content_container.find_all('p'), in document order
find_all_p(s, c) ==
    {i \in Live(s) : i # c /\ s.nodes[i].tag = "p" /\ Within(s.nodes, i, c)}

paragraph_keeps_blank(text) == text \o <<"\n", "\n">>

\* lines 167-169: what one paragraph adds to content
paragraph(text) == IF text # <<>> THEN text \o <<"\n", "\n">> ELSE <<>>

\* lines 166-169 from node i on
RECURSIVE paragraphs_from(_, _, _)
paragraphs_from(s, c, i) ==
    IF i > Len(s.nodes) THEN <<>>
    ELSE (IF i \in find_all_p(s, c) THEN paragraph(strip(get_text(s, i))) ELSE <<>>)
         \o paragraphs_from(s, c, i + 1)

extract_content(s0) ==
    LET s == decompose_unwanted(s0)
        c == content_container_from(s, 1)
        content == paragraphs_from(s, c, 1)
    IN  IF c = 0
        THEN [soup |-> s, raised |-> TRUE, value |-> <<>>]   \* None.find_all
        ELSE [soup |-> s, raised |-> FALSE,
              value |-> IF strip(content) = <<>> THEN strip(get_text(s, c)) ELSE content]

(***************************************************************************)
(* The documents the extractors are run on.                                *)
(***************************************************************************)
Texts == {<<>>, <<" ">>, <<"A">>, <<" ", "B", "\n">>}

OptText == {None} \cup {Some(t) : t \in Texts}

\* <meta og:title>?, <title>?, <body> [<header>] <h1>? [</header>] <h1>C</h1>? <p>P</p>
\* meta: None (no element), Some(None) (no content attribute), Some(Some(text))
TitleDoc(meta, title, h1, inHeader, second) ==
    LET head == (IF meta = None THEN <<>> ELSE <<Meta("property=og:title", meta[1])>>)
                \o (IF title = None THEN <<>> ELSE <<Node("title", 0, title[1])>>)
        b == Len(head) + 1
        top == IF h1 = None THEN <<>>
               ELSE IF inHeader
                    THEN <<Node("header", b, <<>>), Node("h1", b + 1, h1[1])>>
                    ELSE <<Node("h1", b, h1[1])>>
    IN  BeautifulSoup(head \o <<Node("body", 0, <<>>)>> \o top
            \o (IF second THEN <<Node("h1", b, <<"C">>)>> ELSE <<>>)
            \o <<Node("p", b, <<"P">>)>>)

TitleDocs ==
    {TitleDoc(meta, title, h1, inHeader, second) :
        meta \in {None, Some(None)} \cup {Some(Some(t)) : t \in Texts},
        title \in OptText, h1 \in OptText,
        inHeader \in BOOLEAN, second \in BOOLEAN}

\* the paragraphs, one node each, children of node c
RECURSIVE Paragraphs(_, _)
Paragraphs(ps, c) ==
    IF ps = <<>> THEN <<>>
    ELSE <<Node("p", c, Head(ps))>> \o Paragraphs(Tail(ps), c)

\* <body> <p>X</p> <container>loose <nav><p>N</p></nav> <p>..</p>* <script>S</script>
\* kind: "body" (no container element), "none" (no body element either),
\* or the container: "article", "main", "class=content", "main+article"
ContentDoc(kind, loose, ps) ==
    LET body == IF kind = "none" THEN <<>>
                ELSE <<Node("body", 0, IF kind = "body" THEN loose ELSE <<>>)>>
        b == Len(body)
        outer == IF kind \in {"body", "none"} THEN <<>>
                 ELSE <<Node("p", b, <<"X">>)>>
                      \o (IF kind = "main+article"
                          THEN <<Node("main", b, <<"M">>)>> ELSE <<>>)
        c == IF kind \in {"body", "none"} THEN b ELSE b + Len(outer) + 1
        box == IF kind \in {"body", "none"} THEN <<>>
               ELSE IF kind = "class=content"
                    THEN <<Classed("div", b, loose, "class=content")>>
                    ELSE <<Node(IF kind = "main" THEN "main" ELSE "article", b, loose)>>
        before == body \o outer \o box
        n == Len(before)
    IN  BeautifulSoup(before
            \o <<Node("nav", c, <<>>), Node("p", n + 1, <<"N">>)>>
            \o Paragraphs(ps, c)
            \o <<Node("script", c, <<"S">>)>>)

ContentKinds == {"body", "none", "article", "main", "class=content", "main+article"}

ContentDocs ==
    {ContentDoc(kind, loose, ps) :
        kind \in ContentKinds, loose \in {<<>>, <<" ", "L">>},
        ps \in SeqsUpTo(Texts, MaxParas)}

\* <meta published_time>? <meta name=date>? <body><time class=entry-date>?
DateDoc(published, named, time) ==
    BeautifulSoup(
        (IF published = None THEN <<>>
         ELSE <<Meta("property=article:published_time", published[1])>>)
        \o (IF named = None THEN <<>> ELSE <<Meta("name=date", named[1])>>)
        \o <<Node("body", 0, <<>>)>>
        \o (IF time = None THEN <<>>
            ELSE <<Classed("time", Len(SelectSeq(<<published, named>>,
                                       LAMBDA o : o # None)) + 1,
                           time[1], "class=entry-date")>>))

DateDocs ==
    {DateDoc(published, named, time) :
        published \in {None, Some(None), Some(Some(<<>>)), Some(Some(<<"D">>))},
        named \in {None, Some(Some(<<" ">>)), Some(Some(<<"E">>))},
        time \in {None, Some(<<" ">>), Some(<<" ", "F">>)}}

NoCall == [fn |-> "", raised |-> FALSE, value |-> <<>>]
NoEntry == [url |-> [scheme |-> "", netloc |-> <<>>, path |-> <<>>, tail |-> ""],
            depth |-> -1]
NoLink == [why |-> "", what |-> <<>>]

(***************************************************************************)
(* Extractor runs: one extractor is called once on a document.             *)
(***************************************************************************)
InitExtract ==
    /\ url = <<>> /\ max_pages = 0 /\ max_depth = 0 /\ base_domain = ""
    /\ queue = <<>> /\ visited = {} /\ results = <<>> /\ current = NoEntry
    /\ pending = <<>>
    /\ output = <<>> /\ attempts = <<>> /\ enqueued = <<>> /\ last_link = NoLink
    /\ pc = "extract"
    /\ soup \in TitleDocs \cup ContentDocs \cup DateDocs
    /\ ret = NoCall

CallExtractTitle ==
    /\ pc = "extract"
    /\ LET r == extract_title(soup)
       IN ret' = [fn |-> "extract_title", raised |-> r.raised, value |-> r.value]
    /\ pc' = "returned"
    /\ UNCHANGED <<crawlVars, soup>>

CallExtractDate ==
    /\ pc = "extract"
    /\ LET r == extract_date(soup)
       IN ret' = [fn |-> "extract_date", raised |-> r.raised, value |-> r.value]
    /\ pc' = "returned"
    /\ UNCHANGED <<crawlVars, soup>>

CallExtractContent ==
    /\ pc = "extract"
    /\ LET r == extract_content(soup)
       IN /\ ret' = [fn |-> "extract_content", raised |-> r.raised, value |-> r.value]
          /\ soup' = r.soup
    /\ pc' = "returned"
    /\ UNCHANGED crawlVars

NextExtract == CallExtractTitle \/ CallExtractDate \/ CallExtractContent

SpecExtract == InitExtract /\ [][NextExtract]_vars

(***************************************************************************)
(* URLs.  [scheme, netloc, path, tail]: netloc and path are sequences of   *)
(* pieces of the string (so that a suffix can be tested); tail is the      *)
(* query and fragment, "" when there is none.                              *)
(***************************************************************************)
Url(scheme, netloc, path, tail) ==
    [scheme |-> scheme, netloc |-> netloc, path |-> path, tail |-> tail]

ExampleCom == <<"example", ".com">>
BlogExampleCom == <<"blog.", "example", ".com">>
UpperExampleCom == <<"Example", ".com">>

Seeds ==
    { Url("http", ExampleCom, <<"/">>, ""),       \* http://example.com/
      Url("http", ExampleCom, <<"/">>, "?q=1") }  \* http://example.com/?q=1

\* an href attribute: an absolute URL, an absolute path, or a malformed URL
Abs(u) == [kind |-> "abs", url |-> u]
PathRef(path, tail) == [kind |-> "path", url |-> Url("", <<>>, path, tail)]
Malformed == [kind |-> "bad", url |-> Url("http", <<"[">>, <<>>, "")]  \* http://[

Hrefs ==
    { PathRef(<<"/a">>, ""),                                  \* /a
      Abs(Url("http", ExampleCom, <<"/a">>, "?q=1")),         \* http://example.com/a?q=1
      Abs(Url("http", ExampleCom, <<"/">>, "#top")),          \* http://example.com/#top
      Abs(Url("http", BlogExampleCom, <<"/a">>, "")),         \* http://blog.example.com/a
      Abs(Url("http", UpperExampleCom, <<"/a">>, "")),        \* http://Example.com/a
      PathRef(<<"/c", ".pdf">>, ""),                          \* /c.pdf
      PathRef(<<"/c", ".PDF">>, ""),                          \* /c.PDF
      Abs(Url("mailto", <<>>, <<"a@b">>, "")),                \* mailto:a@b
      Malformed }

NavHref == PathRef(<<"/n">>, "")                              \* /n

\* an href the page is yet to reveal: any of Hrefs, fixed when the loop reaches it
AnyHref == [kind |-> "any", url |-> Url("", <<>>, <<>>, "")]

GifHost == <<"example", ".gif">>

\* the hrefs of the single-document site: those above and
PageHrefs ==
    Hrefs \cup
    { Abs(Url("http", GifHost, <<>>, "")),                    \* http://example.gif
      Abs(Url("http", ExampleCom, <<>>, "")),                 \* http://example.com
      PathRef(<<"/c", ".jpg">>, ""),                          \* /c.jpg
      PathRef(<<"/c", ".pdf">>, "?q=1"),                      \* /c.pdf?q=1
      PathRef(<<"/c", ".pdf", "/d">>, ""),                    \* /c.pdf/d
      PathRef(<<"/a">>, ";x.gif") }                           \* /a;x.gif

\* an href of the single-document site that the page is yet to reveal
AnyPageHref == [kind |-> "any", url |-> Url("", <<>>, <<"*">>, "")]

Reveal(href) ==
    IF href = AnyHref THEN Hrefs
    ELSE IF href = AnyPageHref THEN PageHrefs
    ELSE {href}

\* urljoin(base, href), line 72; raises ValueError on a malformed URL
urljoin(base, href) ==
    IF href.kind = "bad" THEN Raised
    ELSE IF href.kind = "abs" THEN Returned(href.url)
    ELSE Returned(Url(base.scheme, base.netloc, href.url.path, href.url.tail))

\* line 75
is_http(next_url) == next_url.scheme \in {"http", "https"}

\* line 82: scheme://netloc path, without query and fragment
clean(parsed_next) == Url(parsed_next.scheme, parsed_next.netloc, parsed_next.path, "")

\* str.endswith on the URL string
endswith(u, ext) ==
    LET str == <<u.scheme, "://">> \o u.netloc \o u.path \o
               (IF u.tail = "" THEN <<>> ELSE <<u.tail>>)
    IN str[Len(str)] = ext

already_visited_never(clean_url, seen) == FALSE

already_visited_in_queue(clean_url, seen) ==
    \E i \in DOMAIN queue : queue[i].url = clean_url

\* line 85
already_visited(clean_url, seen) == clean_url \in seen

same_domain_ignoring_case(parsed_next, base) ==
    \/ parsed_next.netloc = base
    \/ parsed_next.netloc = UpperExampleCom /\ base = ExampleCom

\* line 89 (negated): the netloc is the seed's
same_domain(parsed_next, base) == parsed_next.netloc = base

\* line 93
denylisted(clean_url) ==
    \E ext \in {".pdf", ".jpg", ".png", ".gif"} : endswith(clean_url, ext)

(***************************************************************************)
(* The pages a fetch can return.                                           *)
(***************************************************************************)
\* n anchors, one node each, children of node c
Anchors(n, c) == [i \in 1..n |-> Anchor(c, <<>>, Some(AnyHref))]

\* <body><h1>T</h1><p>A <a>(no href)</a> <a href=..>*</p></body>
PlainDoc(n) ==
    BeautifulSoup(<<Node("body", 0, <<>>), Node("h1", 1, <<"T">>),
                    Node("p", 1, <<"A">>), Anchor(3, <<>>, None)>>
                  \o Anchors(n, 3))

\* <body><header><h1>T</h1></header><nav><a href=/n></nav>
\*   <p>A <a href=..>*</p><footer><a href=/n></footer></body>
NavDoc(n) ==
    BeautifulSoup(<<Node("body", 0, <<>>), Node("header", 1, <<>>),
                    Node("h1", 2, <<"T">>), Node("nav", 1, <<>>),
                    Anchor(4, <<>>, Some(NavHref)), Node("p", 1, <<"A">>)>>
                  \o Anchors(n, 6)
                  \o <<Node("footer", 1, <<>>),
                       Anchor(7 + n, <<>>, Some(NavHref))>>)

\* a response with no <body>: <p>A <a href=..></p>
NoBodyDoc ==
    BeautifulSoup(<<Node("p", 0, <<"A">>), Anchor(1, <<>>, Some(AnyHref))>>)

\* <meta property=og:title> without content, then <body><p>A <a href=/a></p></body>
MetaNoContentDoc ==
    BeautifulSoup(<<Meta("property=og:title", None), Node("body", 0, <<>>),
                    Node("p", 2, <<"A">>), Anchor(3, <<>>, Some(AnyHref))>>)

CrawlDocs ==
    {PlainDoc(n) : n \in 0..MaxLinks} \cup {NavDoc(n) : n \in 0..MaxLinks}
    \cup {NoBodyDoc, MetaNoContentDoc}

\* soup.find_all('a', href=True), from node i on: the hrefs in document order
RECURSIVE anchors_from(_, _)
anchors_from(s, i) ==
    IF i > Len(s.nodes) THEN <<>>
    ELSE (IF i \in Live(s) /\ s.nodes[i].tag = "a" /\ s.nodes[i].href # None
          THEN <<s.nodes[i].href[1]>> ELSE <<>>)
         \o anchors_from(s, i + 1)

Processed_content_first(doc) ==
    LET c == extract_content(doc)
        title == extract_title(c.soup)
        date == extract_date(c.soup)
    IN  [title |-> title, date |-> date,
         content |-> [raised |-> c.raised, value |-> c.value],
         links |-> anchors_from(c.soup, 1)]

\* lines 48-57 and 70 on one fetched document: the three extractor calls, in
\* order, and the anchors of the tree extract_content leaves
Processed(doc) ==
    LET title == extract_title(doc)
        date == extract_date(doc)
        c == extract_content(doc)
    IN  [title |-> title, date |-> date,
         content |-> [raised |-> c.raised, value |-> c.value],
         links |-> anchors_from(c.soup, 1)]

Pages == {Processed(doc) : doc \in CrawlDocs}

(***************************************************************************)
(* scrape_website (lines 16-109).                                          *)
(***************************************************************************)
Entry(u, depth) == [url |-> u, depth |-> depth]

LoopCond_through_budget == queue # <<>> /\ Len(results) <= max_pages

\* line 36: the while test
LoopCond == queue # <<>> /\ Len(results) < max_pages

pop(q) == [entry |-> q[Len(q)], rest |-> SubSeq(q, 1, Len(q) - 1)]

\* line 37: queue.popleft()
popleft(q) == [entry |-> Head(q), rest |-> Tail(q)]

page_data_clean_link(title, date, link, content) ==
    [title |-> title, date |-> date, link |-> clean(link), content |-> content]

page_data_seed_link(title, date, link, content) ==
    [title |-> title, date |-> date, link |-> url, content |-> content]

\* lines 60-65
page_data(title, date, link, content) ==
    [title |-> title, date |-> date, link |-> link, content |-> content]

ShouldDiscover_any_depth(depth, n) == n < max_pages

ShouldDiscover_before_append(depth, n) == depth < max_depth /\ n - 1 < max_pages

\* line 69, with n = len(results) after the append
ShouldDiscover(depth, n) == depth < max_depth /\ n < max_pages

Ended(st, why, what) == [st EXCEPT !.last_link = [why |-> why, what |-> what]]

\* lines 71-98: the loop body for one link.
\* st = [queue, visited, enqueued, last_link, raised]
link_step(st, href, entry) ==
    LET joined == urljoin(entry.url, href)
        next_url == joined.value
        parsed_next == next_url
        clean_url == clean(parsed_next)
    IN  IF joined.raised THEN [Ended(st, "raised", <<>>) EXCEPT !.raised = TRUE]
        ELSE IF ~is_http(next_url) THEN Ended(st, "scheme", <<next_url.scheme>>)
        ELSE IF already_visited(clean_url, st.visited) THEN Ended(st, "visited", <<>>)
        ELSE IF ~same_domain(parsed_next, base_domain)
             THEN Ended(st, "domain", parsed_next.netloc)
        ELSE IF denylisted(clean_url) THEN Ended(st, "denylist", clean_url.path)
        ELSE [Ended(st, "queued", clean_url.path) EXCEPT
                        !.visited = @ \cup {clean_url},
                        !.queue = Append(@, Entry(clean_url, entry.depth + 1)),
                        !.enqueued = Append(@, [url |-> clean_url,
                                                depth |-> entry.depth + 1,
                                                from |-> entry.depth])]

except_Exception_retry(entry, rest) == Append(rest, entry)

\* lines 100-101: the handler prints; the queue is what popleft left
except_Exception(entry, rest) == rest

json_dump_unless_empty(rs) == IF rs = <<>> THEN <<>> ELSE <<rs>>

\* lines 104-105: the file holds the list
json_dump(rs) == <<rs>>

Attempt(entry, outcome) ==
    [url |-> entry.url, depth |-> entry.depth, outcome |-> outcome]

Init ==
    /\ url \in Seeds
    /\ max_pages \in 0..MaxPages
    /\ max_depth \in 0..MaxDepth
    /\ base_domain = url.netloc                      \* lines 27-28
    /\ queue = <<Entry(url, 0)>>                     \* line 31
    /\ visited = {url}                               \* line 32
    /\ results = <<>>                                \* line 33
    /\ current = NoEntry
    /\ pc = "loop"
    /\ pending = <<>>
    /\ output = <<>>
    /\ attempts = <<>>
    /\ enqueued = <<[url |-> url, depth |-> 0, from |-> -1]>>
    /\ last_link = NoLink
    /\ soup = BeautifulSoup(<<>>)
    /\ ret = NoCall

\* one iteration in which requests.get or raise_for_status raises (lines 37-45, 100-101)
FetchError ==
    /\ pc = "loop" /\ LoopCond
    /\ LET p == popleft(queue)
       IN /\ current' = p.entry
          /\ queue' = except_Exception(p.entry, p.rest)
          /\ attempts' = Append(attempts, Attempt(p.entry, "fetch_error"))
    /\ UNCHANGED <<url, max_pages, max_depth, base_domain, visited, results,
                   pc, pending, output, enqueued, last_link, soup, ret>>

\* one iteration in which the page is fetched and an extractor raises (lines 37-57, 100-101)
ExtractError ==
    /\ pc = "loop" /\ LoopCond
    /\ \E page \in Pages :
          /\ page.title.raised \/ page.content.raised
          /\ LET p == popleft(queue)
             IN /\ current' = p.entry
                /\ queue' = except_Exception(p.entry, p.rest)
                /\ attempts' = Append(attempts, Attempt(p.entry, "extract_error"))
    /\ UNCHANGED <<url, max_pages, max_depth, base_domain, visited, results,
                   pc, pending, output, enqueued, last_link, soup, ret>>

\* the page is fetched, extracted and recorded (lines 37-69); the for loop is entered
\* when line 69 allows it and the stripped tree has anchors
ScrapePage ==
    /\ pc = "loop" /\ LoopCond
    /\ \E page \in Pages :
          LET p == popleft(queue)
              rs == Append(results, page_data(page.title.value, page.date.value,
                                              p.entry.url, page.content.value))
              links == IF ShouldDiscover(p.entry.depth, Len(rs)) THEN page.links ELSE <<>>
          IN  /\ ~page.title.raised /\ ~page.content.raised
              /\ current' = p.entry
              /\ queue' = p.rest
              /\ results' = rs
              /\ attempts' = Append(attempts, Attempt(p.entry, "ok"))
              /\ pending' = links
              /\ pc' = IF links = <<>> THEN "loop" ELSE "links"
    /\ UNCHANGED <<url, max_pages, max_depth, base_domain, visited, output,
                   enqueued, last_link, soup, ret>>

\* one pass through the for loop (lines 70-98); an exception leaves the loop for the
\* handler (lines 100-101)
DiscoverLink ==
    /\ pc = "links"
    /\ \E href \in Reveal(Head(pending)) :
          LET st == link_step([queue |-> queue, visited |-> visited,
                               enqueued |-> enqueued, last_link |-> last_link,
                               raised |-> FALSE], href, current)
              rest == IF st.raised THEN <<>> ELSE Tail(pending)
          IN  /\ queue' = IF st.raised THEN except_Exception(current, st.queue)
                          ELSE st.queue
              /\ visited' = st.visited
              /\ enqueued' = st.enqueued
              /\ last_link' = st.last_link
              /\ attempts' = IF st.raised
                             THEN [attempts EXCEPT ![Len(attempts)].outcome = "link_error"]
                             ELSE attempts
              /\ pending' = rest
              /\ pc' = IF rest = <<>> THEN "loop" ELSE "links"
    /\ UNCHANGED <<url, max_pages, max_depth, base_domain, results, current, output,
                   soup, ret>>

\* lines 103-109: the loop is left, the file is written, the list returned
SaveResults ==
    /\ pc = "loop" /\ ~LoopCond
    /\ output' = json_dump(results)
    /\ pc' = "done"
    /\ UNCHANGED <<url, max_pages, max_depth, base_domain, queue, visited, results,
                   current, pending, attempts, enqueued, last_link, soup, ret>>

Next == FetchError \/ ExtractError \/ ScrapePage \/ DiscoverLink \/ SaveResults

Spec == Init /\ [][Next]_vars

\* the interpreter runs the function on: a step is taken whenever one is possible
FairSpec == Spec /\ WF_vars(Next)

(***************************************************************************)
(* A site that serves one document at every URL: the crawl of it, without  *)
(* fetch failures.  The document is in soup; each fetch parses it afresh.  *)
(***************************************************************************)
PageSeeds ==
    Seeds \cup { Url("http", ExampleCom, <<>>, ""),    \* http://example.com
                 Url("http", GifHost, <<"/">>, "") }   \* http://example.gif/

\* <body>[<header><h1>H</h1><a href=/n></header>][<h1>T</h1>][<nav><a href=/n></nav>]
\*   <p>A <a href=..>*</p>[<footer><a href=/n></footer>]</body>
PageDoc(header, h, nav, n) ==
    LET s1 == <<Node("body", 0, <<>>)>>
        s2 == s1 \o (IF header
                     THEN <<Node("header", 1, <<>>), Node("h1", 2, <<"H">>),
                            Anchor(2, <<>>, Some(NavHref))>>
                     ELSE <<>>)
        s3 == s2 \o (IF h THEN <<Node("h1", 1, <<"T">>)>> ELSE <<>>)
        s4 == s3 \o (IF nav
                     THEN <<Node("nav", 1, <<>>), Anchor(Len(s3) + 1, <<>>, Some(NavHref))>>
                     ELSE <<>>)
        s5 == s4 \o <<Node("p", 1, <<"A">>)>>
                 \o [i \in 1..n |-> Anchor(Len(s4) + 1, <<>>, Some(AnyPageHref))]
        s6 == s5 \o (IF nav
                     THEN <<Node("footer", 1, <<>>), Anchor(Len(s5) + 1, <<>>, Some(NavHref))>>
                     ELSE <<>>)
    IN  BeautifulSoup(s6)

\* <body><p>A <a href=..>*</p></body> with the hrefs given
LinkDoc(hrefs) ==
    BeautifulSoup(<<Node("body", 0, <<>>), Node("p", 1, <<"A">>)>>
                  \o [i \in DOMAIN hrefs |-> Anchor(2, <<>>, Some(hrefs[i]))])

LinkDocs ==
    {LinkDoc(hrefs) :
        hrefs \in SeqsUpTo({PathRef(<<"/a">>, ""), PathRef(<<"/b">>, ""), Malformed},
                           MaxLinks + 1)}

PageDocs ==
    {PageDoc(header, h, nav, n) :
        header \in BOOLEAN, h \in BOOLEAN, nav \in BOOLEAN, n \in 0..MaxLinks}
    \cup LinkDocs \cup {NoBodyDoc}

InitPage ==
    /\ url \in PageSeeds
    /\ max_pages \in 1..2
    /\ max_depth \in 0..1
    /\ base_domain = url.netloc
    /\ queue = <<Entry(url, 0)>>
    /\ visited = {url}
    /\ results = <<>>
    /\ current = NoEntry
    /\ pc = "loop"
    /\ pending = <<>>
    /\ output = <<>>
    /\ attempts = <<>>
    /\ enqueued = <<[url |-> url, depth |-> 0, from |-> -1]>>
    /\ last_link = NoLink
    /\ soup \in PageDocs
    /\ ret = NoCall

\* one iteration up to the for loop (lines 37-69) on the site's document: parsed
\* (line 48), extracted (lines 51-57), recorded (lines 60-66), or dropped by the
\* handler (lines 100-101) when an extractor raises
ProcessPage ==
    /\ pc = "loop" /\ LoopCond
    /\ LET p == popleft(queue)
           doc == BeautifulSoup(soup.nodes)
           page == Processed(doc)
           failed == page.title.raised \/ page.content.raised
           rs == Append(results, page_data(page.title.value, page.date.value,
                                           p.entry.url, page.content.value))
           links == IF ~failed /\ ShouldDiscover(p.entry.depth, Len(rs))
                    THEN page.links ELSE <<>>
       IN  /\ current' = p.entry
           /\ queue' = IF failed THEN except_Exception(p.entry, p.rest) ELSE p.rest
           /\ results' = IF failed THEN results ELSE rs
           /\ attempts' = Append(attempts, Attempt(p.entry, IF failed THEN "extract_error"
                                                            ELSE "ok"))
           /\ pending' = links
           /\ pc' = IF links = <<>> THEN "loop" ELSE "links"
           /\ soup' = IF page.title.raised THEN doc ELSE extract_content(doc).soup
    /\ UNCHANGED <<url, max_pages, max_depth, base_domain, visited, output,
                   enqueued, last_link, ret>>

NextPage == ProcessPage \/ DiscoverLink \/ SaveResults

SpecPage == InitPage /\ [][NextPage]_vars

(***************************************************************************)
(* Properties of the crawl.                                                *)
(***************************************************************************)
Recorded(a) == a.outcome \in {"ok", "link_error"}

Last(q) == q[Len(q)]

InQueue(e) == \E i \in DOMAIN queue : queue[i] = e

Attempted(e) == \E i \in DOMAIN attempts : attempts[i].url = e.url

\* C1: in every reachable state the number of records in Result is at most
\* max_pages (max_pages >= 0, max_depth >= 0, any links, any fetch failures).
C1_ResultWithinBudget == Len(results) <= max_pages

\* the budget is reached while entries are still waiting in the frontier
C1_Witness == max_pages > 0 /\ Len(results) = max_pages /\ queue # <<>>

\* C2: every entry ever enqueued, the seed included, has depth <= max_depth,
\* and an entry of depth max_depth never enqueues anything: each discovered
\* entry comes from a page of depth < max_depth, one level below its own.
C2_DepthBounded ==
    \A i \in DOMAIN enqueued :
        /\ enqueued[i].depth <= max_depth
        /\ enqueued[i].from # -1 =>
              /\ enqueued[i].from < max_depth
              /\ enqueued[i].depth = enqueued[i].from + 1

\* a page of depth max_depth was recorded with budget left, after discovery
\* from shallower pages, and the run went on
C2_Witness ==
    /\ max_depth > 0
    /\ \E i \in DOMAIN attempts :
          /\ attempts[i].depth = max_depth /\ attempts[i].outcome = "ok"
          /\ i < Len(attempts)
    /\ Len(results) < max_pages

\* C3: no URL gets two frontier entries in one run: the entries ever enqueued
\* carry pairwise different URLs, and visited holds exactly the URLs enqueued
\* (each added once, when enqueued); a link already in visited is passed over.
C3_EnqueuedOnce ==
    /\ \A i, j \in DOMAIN enqueued : i # j => enqueued[i].url # enqueued[j].url
    /\ visited = {enqueued[i].url : i \in DOMAIN enqueued}
    /\ Cardinality(visited) = Len(enqueued)

\* a second page links to a URL that an earlier page already had enqueued
C3_Witness ==
    /\ last_link.why = "visited"
    /\ Len(attempts) >= 2
    /\ Len(enqueued) >= 2

\* C6: every entry link discovery puts on the frontier has a netloc equal to
\* base_domain; a subdomain of it, or the same name in another letter case,
\* is never enqueued.
C6_SameDomainOnly ==
    /\ \A i \in DOMAIN enqueued :
          enqueued[i].from # -1 => enqueued[i].url.netloc = base_domain
    /\ \A u \in visited : u.netloc \notin {BlogExampleCom, UpperExampleCom}

\* a link to Example.com is passed over for its domain after another link was accepted
C6_Witness ==
    /\ last_link.why = "domain"
    /\ last_link.what = UpperExampleCom
    /\ Len(enqueued) >= 2

\* C8: entries leave the frontier in the order they entered it, the depths of
\* the entries dequeued never decrease, and Result lists the recorded pages
\* in the order they were dequeued.
C8_BreadthFirst ==
    /\ \A i \in DOMAIN attempts :
          /\ attempts[i].url = enqueued[i].url
          /\ attempts[i].depth = enqueued[i].depth
    /\ \A i, j \in DOMAIN attempts : i < j => attempts[i].depth <= attempts[j].depth
    /\ LET rec == SelectSeq(attempts, Recorded)
       IN /\ Len(rec) = Len(results)
          /\ \A k \in DOMAIN results : results[k].link = rec[k].url

\* depths 0, 1, 1, 2 were dequeued and three pages recorded
C8_Witness ==
    /\ Len(attempts) = 4
    /\ attempts[2].depth = 1 /\ attempts[3].depth = 1 /\ attempts[4].depth = 2
    /\ Len(results) = 3

\* the step is a loop iteration whose fetch raised
FetchFailedStep ==
    /\ Len(attempts') = Len(attempts) + 1
    /\ Last(attempts').outcome = "fetch_error"

SomeFetchFailed == \E i \in DOMAIN attempts : attempts[i].outcome = "fetch_error"

\* C4: a failed fetch does not stop the crawl: the iteration leaves Result and
\* visited as they were and only drops the entry from the frontier, no URL is
\* ever attempted twice, and every entry in the frontier after a failure is
\* dequeued later unless Result reaches max_pages first: no entry is lost
\* (each one enqueued is waiting or was attempted), and after a failure the
\* loop runs on until the frontier is empty or Result holds max_pages records.
C4_FetchFailureIsolated ==
    /\ [][FetchFailedStep =>
            /\ results' = results
            /\ visited' = visited
            /\ queue' = Tail(queue)
            /\ \A i \in DOMAIN queue' : queue'[i].url # Head(queue).url
            /\ pc' = "loop"]_vars
    /\ [](\A i, j \in DOMAIN attempts : i # j => attempts[i].url # attempts[j].url)
    /\ [](\A i \in DOMAIN enqueued : InQueue(Entry(enqueued[i].url, enqueued[i].depth))
                                          \/ Attempted(enqueued[i]))
    /\ SomeFetchFailed ~>
          (pc = "done" /\ (queue = <<>> \/ Len(results) >= max_pages))

\* a fetch failed and an entry that was waiting then was recorded afterwards
C4_Witness ==
    \E i, j \in DOMAIN attempts :
        /\ i < j
        /\ attempts[i].outcome = "fetch_error"
        /\ attempts[j].outcome = "ok"
        /\ attempts[j].depth = attempts[i].depth

C7_TerminatesAndWrites ==
    /\ <>(pc = "done")
    /\ [](pc = "done" =>
            /\ queue = <<>> \/ Len(results) = max_pages
            /\ output = <<results>>)

\* a run in which pages were attempted and none succeeded has written the empty list
C7_Witness ==
    /\ pc = "done" /\ max_pages > 0
    /\ attempts # <<>> /\ results = <<>>
    /\ output = <<results>>

(***************************************************************************)
(* Properties of the extractors.                                           *)
(***************************************************************************)
TitleCalled == ret.fn = "extract_title"

TheH1 == find(soup, "h1")
TheOgTitle == find_attrs(soup, "meta", "property=og:title")
TheTitle == find(soup, "title")

OrUnknownTitle(text) == IF text = <<>> THEN UnknownTitle ELSE text

\* C9 as stated: an <h1> with non-blank text gives that trimmed text; otherwise,
\* with no <h1> and an og:title meta, its trimmed content; otherwise a <title>
\* gives its trimmed text; otherwise "Unknown Title".  (Read in the claim's
\* favour: where the trimmed text it names is empty, "Unknown Title" is accepted.)
C9_AsStated ==
    (TitleCalled /\ ~ret.raised) =>
        IF TheH1 # 0 /\ strip(get_text(soup, TheH1)) # <<>>
        THEN ret.value = strip(get_text(soup, TheH1))
        ELSE IF TheH1 = 0 /\ TheOgTitle # 0
        THEN ret.value = OrUnknownTitle(strip(soup.nodes[TheOgTitle].content[1]))
        ELSE IF TheTitle # 0
        THEN ret.value = OrUnknownTitle(strip(get_text(soup, TheTitle)))
        ELSE ret.value = UnknownTitle

\* C9, amended: the first that exists of <h1>, og:title meta, <title> decides
\* alone, blank or not: the title is its trimmed text (for the meta its trimmed
\* content attribute, and the call raises when the meta has none), or
\* "Unknown Title" when that is empty; with none of the three, "Unknown Title".
C9_FirstPresentDecides ==
    TitleCalled =>
        IF TheH1 # 0
        THEN ~ret.raised /\ ret.value = OrUnknownTitle(strip(get_text(soup, TheH1)))
        ELSE IF TheOgTitle # 0
        THEN IF soup.nodes[TheOgTitle].content = None
             THEN ret.raised
             ELSE /\ ~ret.raised
                  /\ ret.value = OrUnknownTitle(strip(soup.nodes[TheOgTitle].content[1]))
        ELSE IF TheTitle # 0
        THEN ~ret.raised /\ ret.value = OrUnknownTitle(strip(get_text(soup, TheTitle)))
        ELSE ~ret.raised /\ ret.value = UnknownTitle

\* a blank <h1> beside an og:title and a <title> with text: "Unknown Title"
C9_Witness ==
    /\ TitleCalled
    /\ TheH1 # 0 /\ strip(get_text(soup, TheH1)) = <<>>
    /\ TheOgTitle # 0 /\ soup.nodes[TheOgTitle].content = Some(<<"A">>)
    /\ TheTitle # 0 /\ strip(get_text(soup, TheTitle)) = <<"B">>
    /\ ret.value = UnknownTitle

\* the members of a set of numbers, in increasing order
RECURSIVE Ascending(_)
Ascending(S) == IF S = {} THEN <<>> ELSE <<Min(S)>> \o Ascending(S \ {Min(S)})

RECURSIVE Flatten(_)
Flatten(ss) == IF ss = <<>> THEN <<>> ELSE Head(ss) \o Flatten(Tail(ss))

\* the <p> elements of container c whose trimmed text is not empty, in document order
TextParagraphs(c) ==
    Ascending({i \in Live(soup) :
                  /\ i # c /\ soup.nodes[i].tag = "p" /\ Within(soup.nodes, i, c)
                  /\ strip(get_text(soup, i)) # <<>>})

\* <p>A</p><p></p><p> B\n</p>
ABDoc == ContentDoc("body", <<>>, << <<"A">>, <<>>, <<" ", "B", "\n">> >>)

\* C10: extract_content returns, in document order, the trimmed text of every
\* <p> of the chosen container that has any, each followed by two newlines
\* (paragraphs "A", "", "B" give "A\n\nB\n\n"); only when there is no such
\* text does it return the trimmed text of the whole container.
C10_ContentOfParagraphs ==
    (ret.fn = "extract_content" /\ ~ret.raised) =>
        LET c == content_container_from(soup, 1)
            ps == TextParagraphs(c)
            blocks == Flatten([k \in DOMAIN ps |->
                                  strip(get_text(soup, ps[k])) \o <<"\n", "\n">>])
        IN  /\ ret.value = IF blocks = <<>> THEN strip(get_text(soup, c)) ELSE blocks
            /\ soup.nodes = ABDoc.nodes =>
                  ret.value = <<"A", "\n", "\n", "B", "\n", "\n">>

\* the paragraphs "A", "", " B" are extracted
C10_Witness ==
    /\ ret.fn = "extract_content"
    /\ soup.nodes = ABDoc.nodes
    /\ ret.value = <<"A", "\n", "\n", "B", "\n", "\n">>

(***************************************************************************)
(* Properties of link discovery.                                           *)
(***************************************************************************)
Extensions == {".pdf", ".jpg", ".png", ".gif"}

\* the path ends with one of the extensions, in the letter case listed
PathHasExtension(path) == path # <<>> /\ Last(path) \in Extensions

\* C11: a same-domain link not yet visited is rejected for its extension
\* exactly when its canonical path ends with .pdf, .jpg, .png or .gif in that
\* letter case: a link passed over by the denylist has a path that ends so,
\* and a link that is enqueued (as /c.PDF is) has a path that does not.
C11_AsStated ==
    /\ last_link.why = "denylist" => PathHasExtension(last_link.what)
    /\ last_link.why = "queued" => ~PathHasExtension(last_link.what)

\* the step is a loop iteration that appended a record
RecordedStep == Len(results') = Len(results) + 1

\* C12: the test of line 69 is made after the append: an iteration that leaves
\* len(Result) = max_pages, or whose page has depth max_depth, takes the entry
\* off the frontier and changes nothing else of the frontier or of visited,
\* and does not enter the for loop; the for loop only ever runs for a page of
\* depth < max_depth with len(Result) < max_pages, and nothing but the for
\* loop adds to visited or to the frontier.
C12_DiscoveryGated ==
    /\ [][(RecordedStep /\ (Len(results') = max_pages \/ current'.depth = max_depth))
            => /\ queue' = Tail(queue)
               /\ visited' = visited
               /\ enqueued' = enqueued
               /\ pending' = <<>>
               /\ pc' = "loop"]_vars
    /\ [](pc = "links" => current.depth < max_depth /\ Len(results) < max_pages)
    /\ [][(visited' # visited \/ Len(queue') > Len(queue)) => pc = "links"]_vars

\* a page above max_depth was recorded as the last the budget allows, after an
\* earlier page had enqueued links, and entries are left waiting
C12_Witness ==
    /\ pc = "loop" /\ max_pages >= 2 /\ Len(results) = max_pages
    /\ Last(attempts).outcome = "ok" /\ Last(attempts).depth < max_depth
    /\ queue # <<>>

\* the hrefs of the anchors of the tree link discovery reads
PageAnchors == anchors_from(soup, 1)

\* the canonical URLs of the page's links that pass the filter of lines 72-94
\* (joined, http or https, same domain, not denylisted)
PassingLinks(entry) ==
    {clean(urljoin(entry.url, PageAnchors[i]).value) :
        i \in {j \in DOMAIN PageAnchors :
                  LET joined == urljoin(entry.url, PageAnchors[j])
                  IN /\ ~joined.raised
                     /\ is_http(joined.value)
                     /\ same_domain(joined.value, base_domain)
                     /\ ~denylisted(clean(joined.value))}}

\* C13: when the first page's iteration is over and the page was recorded,
\* either every link of the page that passes the filter is in visited (it was
\* there before, or the page enqueued it), or the page enqueued nothing; also
\* when handling one of its links raised.
C13_AsStated ==
    (/\ pc = "loop" /\ Len(attempts) = 1 /\ Recorded(attempts[1])
     /\ \A i \in DOMAIN PageAnchors : PageAnchors[i].kind # "any")
    => (PassingLinks(current) \subseteq visited \/ Len(enqueued) = 1)

(***************************************************************************)
(* Properties of the records.                                              *)
(***************************************************************************)
\* the step is a loop iteration: an entry is dequeued
AttemptStep == Len(attempts') = Len(attempts) + 1

\* C14: an iteration whose fetch, parse and extraction succeed appends exactly
\* one record, whose link is the dequeued URL as it stood in the frontier, and
\* leaves the earlier records as they were; an iteration in which one of them
\* raises appends nothing, and no other step touches Result.  So Result holds
\* one record per page processed with success, in order, each with that
\* page's URL, and no two records have the same link.
C14_OneRecordPerPage ==
    /\ [][IF AttemptStep
           THEN IF Last(attempts').outcome = "ok"
                THEN /\ Len(results') = Len(results) + 1
                     /\ SubSeq(results', 1, Len(results)) = results
                     /\ Last(results').link = Head(queue).url
                ELSE results' = results
           ELSE results' = results]_vars
    /\ [](LET rec == SelectSeq(attempts, Recorded)
          IN  /\ Len(results) = Len(rec)
              /\ \A k \in DOMAIN results : results[k].link = rec[k].url)
    /\ [](\A i, j \in DOMAIN results : i # j => results[i].link # results[j].link)

\* a seed given with a query was recorded under that URL and a second page
\* after it; of the other pages one failed to fetch and one failed in extraction
C14_Witness ==
    /\ Len(results) = 2 /\ Len(attempts) = 4
    /\ results[1].link = url /\ url.tail # ""
    /\ \E i \in DOMAIN attempts : attempts[i].outcome = "fetch_error"
    /\ \E i \in DOMAIN attempts : attempts[i].outcome = "extract_error"

(***************************************************************************)
(* More properties of the extractors.                                      *)
(***************************************************************************)
\* the document's first <h1> has no text but whitespace
BlankH1 == TheH1 # 0 /\ strip(get_text(soup, TheH1)) = <<>>

\* C15 as stated: with an <h1> whose trimmed text is empty, extract_title
\* returns the empty string.
C15_AsStated ==
    (TitleCalled /\ BlankH1) => (~ret.raised /\ ret.value = <<>>)

\* C15, amended: with an <h1> whose trimmed text is empty, extract_title
\* returns "Unknown Title", whatever og:title meta and <title> the document
\* has: it never returns the empty string, nor their text.
C15_BlankH1GivesDefault ==
    /\ (TitleCalled /\ BlankH1) => (~ret.raised /\ ret.value = UnknownTitle)
    /\ (TitleCalled /\ ~ret.raised) => ret.value # <<>>

\* an <h1> of one space, inside <header>, in a document with a <title> and no
\* og:title meta
C15_Witness ==
    /\ TitleCalled /\ BlankH1
    /\ get_text(soup, TheH1) = <<" ">>
    /\ soup.nodes[soup.nodes[TheH1].parent].tag = "header"
    /\ TheOgTitle = 0
    /\ TheTitle # 0 /\ get_text(soup, TheTitle) = <<"A">>
    /\ ret.value = UnknownTitle

(***************************************************************************)
(* Properties of the processing of one page.                               *)
(***************************************************************************)
\* the tree as parsed, before anything was decomposed
Pristine == BeautifulSoup(soup.nodes)

\* node i is, or lies inside, a script, style, nav, footer or header element
InUnwanted(i) ==
    \E j \in DOMAIN soup.nodes :
        soup.nodes[j].tag \in Unwanted /\ Within(soup.nodes, i, j)

\* C16: the title recorded for a page is taken from the tree as parsed (an
\* <h1> inside <header> gives the title, before a later <h1> in the body);
\* when the page is recorded the tree has lost exactly the script, style, nav,
\* footer and header elements with all inside them; the for loop runs over
\* anchors of what is left, so the href found only in nav, header and footer
\* (/n) is never looked at and never enters visited or the frontier.
C16_ExtractionOrder ==
    /\ (attempts # <<>> /\ Recorded(Last(attempts))) =>
          /\ LET h1 == find(Pristine, "h1")
             IN  /\ h1 # 0 =>
                       Last(results).title = OrUnknownTitle(strip(get_text(Pristine, h1)))
                 /\ (h1 # 0 /\ InUnwanted(h1)) => Last(results).title = <<"H">>
          /\ soup.gone = {i \in DOMAIN soup.nodes : InUnwanted(i)}
    /\ \A i \in DOMAIN pending : pending[i] # NavHref
    /\ Len(pending) <= Cardinality({i \in Live(soup) : soup.nodes[i].tag = "a"})
    /\ last_link.what # <<"/n">>
    /\ \A u \in visited : u.path # <<"/n">>
    /\ \A i \in DOMAIN queue : queue[i].url.path # <<"/n">>

\* a page with <h1>H</h1> and a link to /n in its header, a second <h1> in the
\* body and links to /n in nav and footer was recorded with title "H", and
\* a link of its body was enqueued
C16_Witness ==
    /\ pc = "loop" /\ Len(attempts) = 1 /\ Len(results) = 1
    /\ results[1].title = <<"H">>
    /\ \E i \in DOMAIN soup.nodes : soup.nodes[i].tag = "h1" /\ ~InUnwanted(i)
    /\ Cardinality({i \in soup.gone : soup.nodes[i].href = Some(NavHref)}) = 3
    /\ Len(enqueued) = 2

(***************************************************************************)
(* Properties of the frontier and of visited.                              *)
(***************************************************************************)
\* C17: the seed is deduplicated by its canonical form (URL without query and
\* fragment), as the claim derives from visited holding canonical URLs only:
\* link discovery never enqueues a URL equal to the canonical form of the
\* seed URL, and no iteration after the first fetches that URL.
C17_AsStated ==
    /\ \A i \in DOMAIN enqueued :
          enqueued[i].from # -1 => enqueued[i].url # clean(url)
    /\ \A i \in DOMAIN attempts : i > 1 => attempts[i].url # clean(url)

\* C18: the depths of the frontier's entries, front to back, never decrease;
\* the last is at most one more than the first, and the first is at least
\* the depth of the entry dequeued last.
C18_FrontierDepths ==
    /\ \A i, j \in DOMAIN queue : i < j => queue[i].depth <= queue[j].depth
    /\ queue # <<>> =>
          /\ Last(queue).depth <= Head(queue).depth + 1
          /\ Head(queue).depth >= current.depth

\* in the for loop of a depth-1 page, the frontier holds another depth-1
\* entry and behind it a depth-2 entry
C18_Witness ==
    /\ pc = "links" /\ current.depth = 1
    /\ Len(queue) >= 2
    /\ Head(queue).depth = 1 /\ Last(queue).depth = 2

\* C19: every URL in the frontier and every link in Result is in visited, the
\* frontier holds no URL twice and no URL that was dequeued already, and no
\* step takes a member out of visited.
C19_VisitedCoversAll ==
    /\ [](/\ \A i \in DOMAIN queue : queue[i].url \in visited
          /\ \A k \in DOMAIN results : results[k].link \in visited
          /\ \A i, j \in DOMAIN queue : i # j => queue[i].url # queue[j].url
          /\ \A i \in DOMAIN queue : \A j \in DOMAIN attempts :
                queue[i].url # attempts[j].url)
    /\ [][visited \subseteq visited']_vars

\* two pages are recorded, one fetch failed, and an entry found by the second
\* recorded page waits in the frontier
C19_Witness ==
    /\ Len(results) = 2 /\ Len(queue) = 1
    /\ \E i \in DOMAIN attempts : attempts[i].outcome = "fetch_error"
    /\ Head(queue).depth = 2
    /\ Cardinality(visited) = 4

====
